---- MODULE Spec2Model ----
(***************************************************************************)
(* bjarkan: the command line front end (cli.py) and the BlueZ pairing      *)
(* agent (agent.py).  One behaviour of this module is one invocation of    *)
(* the bjarkan process: main() parses the command line, dispatches to one  *)
(* subcommand, the subcommand either asks the DeviceManager for one        *)
(* lifecycle operation (during which the glib main loop runs and the       *)
(* management service may call the agent) or asks the registry for a       *)
(* device listing, the output is printed, main() returns, the process      *)
(* exits.                                                                  *)
(*                                                                         *)
(* bjarkan/device_manager.py and bjarkan/list_devices.py are imported by   *)
(* cli.py but are not part of the sources at hand; the steps they take     *)
(* (registering the agent, running and stopping the loop, issuing the      *)
(* request, the registry's filters) follow the design document and are     *)
(* marked "design document" below.                                         *)
(*                                                                         *)
(* Encoding of Python values: None is the string "None" where a function's *)
(* return value is meant, a dict is a record, a list is a sequence, an     *)
(* rssi is <<>> for None and <<n>> for the integer n.                      *)
(***************************************************************************)
EXTENDS Integers, Sequences, FiniteSets, TLC

\* ---------------------------------------------------------------- bounds
\* Agent callbacks the management service delivers during one invocation.
MaxCallbacks == 3
\* Calls of Agent.set_exit_on_release during one invocation.
MaxSetCalls == 2
\* Length of a registry snapshot.
MaxDevices == 2

\* ------------------------------------------------------------ input sets
LifecycleCommands == {"pair", "unpair", "connect", "disconnect"}

ListingCommands == {"paired-devices", "connected-devices", "scan"}

\* cli.py main(): the subparsers; a COMMAND is required.
Commands == LifecycleCommands \cup ListingCommands

Addresses == {"AA:BB:CC:DD:EE:01"}

PinCodes == {"0000"}

Passkeys == {123456}

\* Design document: OperationResult as the DeviceManager returns it.  cli.py
\* reads it as a dict with the keys 'result' and 'code'.
OperationResults ==
  { [result |-> "success", code |-> 0],
    [result |-> "AuthenticationRejected", code |-> 1],
    [result |-> "DeviceNotFound", code |-> 2] }

\* Design document: the result of an operation abandoned on its time bound.
TimeoutResult == [result |-> "AuthenticationTimeout", code |-> 3]

\* Design document: DeviceRecord as the registry returns it.
DeviceRecords ==
  { [address |-> "AA:BB:CC:DD:EE:01", rssi |-> <<-60>>, icon |-> "audio-card",
     paired |-> FALSE, connected |-> FALSE, alias |-> "Speaker"],
    [address |-> "AA:BB:CC:DD:EE:02", rssi |-> <<>>, icon |-> "input-keyboard",
     paired |-> TRUE, connected |-> FALSE, alias |-> "Keyboard"],
    [address |-> "AA:BB:CC:DD:EE:03", rssi |-> <<-48>>, icon |-> "phone",
     paired |-> TRUE, connected |-> TRUE, alias |-> "Phone"] }

SeqsUpTo(S, n) == UNION { [1..k -> S] : k \in 0..n }

\* Design document: what the management service's object tree can hold when
\* a listing is asked for.
RegistrySnapshots == SeqsUpTo(DeviceRecords, MaxDevices)

\* ------------------------------------------------------------------ state
VARIABLES
  pc,               \* where main() is
  args,             \* the parsed command line: [cmd, json, device]
  glib_default,     \* DBusGMainLoop(set_as_default = True) was called
  agent_registered, \* an Agent object is exported on the bus
  exit_on_release,  \* Agent.exit_on_release
  set_calls,        \* arguments of the set_exit_on_release calls so far
  loop,             \* the glib main loop: "none", "running", "stopped"
  stops,            \* how many times the loop went from running to stopped
  calls,            \* calls cli.py made to a DeviceManager operation
  requests,         \* requests the DeviceManager issued to the service
  op,               \* the outstanding request: "none", "pending", "resolved"
  results,          \* the OperationResults the DeviceManager returned
  delivered,        \* agent methods the service called, in delivery order
  replies,          \* how each agent method call ended, in handling order
  stdout,           \* the lines printed
  listed,           \* the registry's answer to the listing command
  func_ret,         \* what args.func(args) returned
  main_ret,         \* what main() returned
  exit_status       \* the process's exit status

vars ==
  << pc, args, glib_default, agent_registered, exit_on_release, set_calls,
     loop, stops, calls, requests, op, results, delivered, replies, stdout,
     listed, func_ret, main_ret, exit_status >>

agent_vars == << agent_registered, exit_on_release, set_calls >>

loop_vars == << loop, stops >>

manager_vars == << calls, requests, op, results >>

callback_vars == << delivered, replies >>

exit_vars == << func_ret, main_ret, exit_status >>

\* ---------------------------------------------------------- Python values
\* str() of a bool.
StrBool(b) == IF b THEN "True" ELSE "False"

\* str() of an rssi: None or an integer.
StrRssi(r) == IF r = <<>> THEN "None" ELSE ToString(r[1])

\* Truth value of what a subcommand function returned.
Truthy(v) == v # "None"

\* A printed line: a str, or the structure json.dumps was given.
TextLine(s) == [kind |-> "text", value |-> s]

JsonLine(v) == [kind |-> "json", value |-> v]

\* ------------------------------------------------------------- the agent
\* agent.py as it would be with a module-level main loop.
AgentGlobals_with_mainloop == {"dbus", "Agent", "mainloop"}

\* agent.py binds exactly these names at module level.
AgentGlobals == {"dbus", "Agent"}

\* ------------------------------------------------------------ formatting
\* format_device_data with the paired and connected columns taken in the
\* other order.
format_device_data_swapped(devices, format_json) ==
  IF format_json
    THEN << JsonLine([ i \in 1..Len(devices) |->
              [address   |-> devices[i].address,
               rssi      |-> devices[i].rssi,
               icon      |-> devices[i].icon,
               paired    |-> devices[i].connected,
               connected |-> devices[i].paired,
               alias     |-> devices[i].alias] ]) >>
    ELSE << >>

\* cli.py format_device_data: what it prints for `devices`.
format_device_data(devices, format_json) ==
  IF format_json
    THEN << JsonLine([ i \in 1..Len(devices) |->
              [address   |-> devices[i].address,
               rssi      |-> devices[i].rssi,
               icon      |-> devices[i].icon,
               paired    |-> devices[i].paired,
               connected |-> devices[i].connected,
               alias     |-> devices[i].alias] ]) >>
    ELSE [ i \in 1..Len(devices) |->
           TextLine(devices[i].address \o " " \o StrRssi(devices[i].rssi)
                    \o " " \o StrBool(devices[i].paired)
                    \o " " \o StrBool(devices[i].connected)
                    \o " " \o devices[i].icon
                    \o " " \o devices[i].alias) ]

\* format_results printing a success code whatever the result.
format_results_code_lost(res, format_json) ==
  IF format_json
    THEN JsonLine([result |-> res.result, code |-> 0])
    ELSE TextLine("result: " \o res.result \o ", code: 0")

\* cli.py format_results: the line it prints for `res`.
format_results(res, format_json) ==
  IF format_json
    THEN JsonLine([result |-> res.result, code |-> res.code])
    ELSE TextLine("result: " \o res.result \o ", code: " \o ToString(res.code))

\* -------------------------------------------------------------------- Init
Init ==
  /\ pc = "start"
  /\ args \in [cmd : Commands, json : BOOLEAN, device : Addresses]
  /\ glib_default = FALSE
  /\ agent_registered = FALSE
  /\ exit_on_release = TRUE
  /\ set_calls = << >>
  /\ loop = "none"
  /\ stops = 0
  /\ calls = 0
  /\ requests = 0
  /\ op = "none"
  /\ results = << >>
  /\ delivered = << >>
  /\ replies = << >>
  /\ stdout = << >>
  /\ listed = << >>
  /\ func_ret = "unset"
  /\ main_ret = -1
  /\ exit_status = -1

\* ------------------------------------------------------------------ main()
\* cli.py main(), lines 164-196: install the glib main loop glue as dbus's
\* default and parse the command line.
main_parse_args ==
  /\ pc = "start"
  /\ glib_default' = TRUE
  /\ pc' = "dispatch"
  /\ UNCHANGED << args, agent_vars, loop_vars, manager_vars, callback_vars,
                  stdout, listed, exit_vars >>

\* The first half of a lifecycle subcommand: DeviceManager(args.device) and
\* the call of its operation, which returns only in lifecycle_return.
CallDeviceManager(command) ==
  /\ pc = "dispatch"
  /\ args.cmd = command
  /\ calls' = calls + 1
  /\ pc' = "in_manager"
  /\ UNCHANGED << args, glib_default, agent_vars, loop_vars, requests, op,
                  results, callback_vars, stdout, listed, exit_vars >>

pair == CallDeviceManager("pair")

unpair == CallDeviceManager("unpair")

connect == CallDeviceManager("connect")

disconnect == CallDeviceManager("disconnect")

\* ------------------------------------------------------ the DeviceManager
\* Design document, 4.1: the agent is registered once per process before the
\* lifecycle operation.
DeviceManager_register_agent ==
  /\ pc = "in_manager"
  /\ ~agent_registered
  /\ agent_registered' = TRUE
  /\ UNCHANGED << pc, args, glib_default, exit_on_release, set_calls,
                  loop_vars, manager_vars, callback_vars, stdout, listed,
                  exit_vars >>

\* Design document, 4.2 and 9: the loop is running when the request is
\* issued, and the caller is suspended until the terminal response.
DeviceManager_issue_request ==
  /\ pc = "in_manager"
  /\ agent_registered
  /\ op = "none"
  /\ loop = "none"
  /\ loop' = "running"
  /\ op' = "pending"
  /\ requests' = requests + 1
  /\ UNCHANGED << pc, args, glib_default, agent_vars, stops, calls, results,
                  callback_vars, stdout, listed, exit_vars >>

\* Design document, 2 and 5: the terminal response (or the time bound)
\* resolves the operation and the loop is stopped.
Resolve(res) ==
  /\ pc = "in_manager"
  /\ op = "pending"
  /\ loop = "running"
  /\ op' = "resolved"
  /\ results' = Append(results, res)
  /\ loop' = "stopped"
  /\ stops' = stops + 1
  /\ UNCHANGED << pc, args, glib_default, agent_vars, calls, requests,
                  callback_vars, stdout, listed, exit_vars >>

DeviceManager_terminal_response == \E res \in OperationResults : Resolve(res)

DeviceManager_timeout == Resolve(TimeoutResult)

\* ------------------------------------------------------------------ Agent
\* How a call of an agent method ended: it returned, or the exception that
\* left it; `flag` is exit_on_release when the call arrived.
Reply(method, outcome) ==
  [method |-> method, outcome |-> outcome, flag |-> exit_on_release]

\* dbus delivers a method call to the exported object from the running loop.
Deliverable ==
  /\ agent_registered
  /\ loop = "running"
  /\ Len(delivered) < MaxCallbacks

\* set_exit_on_release assigning to a local name: the attribute keeps its
\* value.
set_exit_on_release_lost(value) ==
  /\ agent_registered
  /\ loop = "none"
  /\ Len(set_calls) < MaxSetCalls
  /\ set_calls' = Append(set_calls, value)
  /\ UNCHANGED << pc, args, glib_default, agent_registered, exit_on_release,
                  loop_vars, manager_vars, callback_vars, stdout, listed,
                  exit_vars >>

\* Agent.set_exit_on_release.  Its caller is Python code holding the agent,
\* which runs before the loop is entered.
set_exit_on_release(value) ==
  /\ agent_registered
  /\ loop = "none"
  /\ Len(set_calls) < MaxSetCalls
  /\ exit_on_release' = value
  /\ set_calls' = Append(set_calls, value)
  /\ UNCHANGED << pc, args, glib_default, agent_registered, loop_vars,
                  manager_vars, callback_vars, stdout, listed, exit_vars >>

\* Release with the loop at hand and the flag not consulted.
Release_always_quits ==
  /\ Deliverable
  /\ delivered' = Append(delivered, "Release")
  /\ loop' = "stopped"
  /\ stops' = stops + 1
  /\ replies' = Append(replies, Reply("Release", "return"))
  /\ UNCHANGED << pc, args, glib_default, agent_vars, manager_vars, stdout,
                  listed, exit_vars >>

\* Agent.Release.  `mainloop` is looked up in agent.py's module globals when
\* the line runs; an unbound name raises NameError, which dbus.service turns
\* into an error reply to the caller.
Release ==
  /\ Deliverable
  /\ delivered' = Append(delivered, "Release")
  /\ IF exit_on_release
       THEN IF "mainloop" \in AgentGlobals
              THEN /\ loop' = "stopped"
                   /\ stops' = stops + 1
                   /\ replies' = Append(replies, Reply("Release", "return"))
              ELSE /\ UNCHANGED loop_vars
                   /\ replies' = Append(replies, Reply("Release", "NameError"))
       ELSE /\ UNCHANGED loop_vars
            /\ replies' = Append(replies, Reply("Release", "return"))
  /\ UNCHANGED << pc, args, glib_default, agent_vars, manager_vars, stdout,
                  listed, exit_vars >>

\* Agent.DisplayPinCode.
DisplayPinCode(device, pincode) ==
  /\ Deliverable
  /\ delivered' = Append(delivered, "DisplayPinCode")
  /\ stdout' = Append(stdout,
       TextLine("DisplayPinCode (" \o device \o ", " \o pincode \o ")"))
  /\ replies' = Append(replies, Reply("DisplayPinCode", "return"))
  /\ UNCHANGED << pc, args, glib_default, agent_vars, loop_vars, manager_vars,
                  listed, exit_vars >>

\* RequestConfirmation reaching for the loop the way Release does.
RequestConfirmation_raises(device, passkey) ==
  /\ Deliverable
  /\ delivered' = Append(delivered, "RequestConfirmation")
  /\ stdout' = Append(stdout,
       TextLine("RequestConfirmation (" \o device \o ", "
                \o ToString(passkey) \o ")"))
  /\ replies' = Append(replies, Reply("RequestConfirmation", "NameError"))
  /\ UNCHANGED << pc, args, glib_default, agent_vars, loop_vars, manager_vars,
                  listed, exit_vars >>

\* Agent.RequestConfirmation.
RequestConfirmation(device, passkey) ==
  /\ Deliverable
  /\ delivered' = Append(delivered, "RequestConfirmation")
  /\ stdout' = Append(stdout,
       TextLine("RequestConfirmation (" \o device \o ", "
                \o ToString(passkey) \o ")"))
  /\ replies' = Append(replies, Reply("RequestConfirmation", "return"))
  /\ UNCHANGED << pc, args, glib_default, agent_vars, loop_vars, manager_vars,
                  listed, exit_vars >>

\* A subcommand that asks again when the operation failed.
lifecycle_return_retry ==
  /\ pc = "in_manager"
  /\ op = "resolved"
  /\ IF results[Len(results)].code # 0 /\ calls < 2
       THEN /\ calls' = calls + 1
            /\ op' = "none"
            /\ loop' = "none"
            /\ UNCHANGED << pc, stdout, func_ret, requests, results, stops >>
       ELSE /\ stdout' = Append(stdout,
                 format_results(results[Len(results)], args.json))
            /\ func_ret' = "None"
            /\ pc' = "returned"
            /\ UNCHANGED << loop_vars, manager_vars >>
  /\ UNCHANGED << args, glib_default, agent_vars, callback_vars, listed,
                  main_ret, exit_status >>

\* ------------------------------------------- the subcommands' second half
\* pair / unpair / connect / disconnect, the return statement: the
\* DeviceManager's operation has returned its result, format_results prints
\* it and returns nothing, and that is what the subcommand returns.
lifecycle_return ==
  /\ pc = "in_manager"
  /\ op = "resolved"
  /\ stdout' = Append(stdout, format_results(results[Len(results)], args.json))
  /\ func_ret' = "None"
  /\ pc' = "returned"
  /\ UNCHANGED << args, glib_default, agent_vars, loop_vars, manager_vars,
                  callback_vars, listed, main_ret, exit_status >>

\* ------------------------------------------------------------ the registry
\* Design document, 4.3: the registry's three queries over a snapshot.
connected_devices(snapshot) == SelectSeq(snapshot, LAMBDA d : d.connected)

paired_devices(snapshot) == SelectSeq(snapshot, LAMBDA d : d.paired)

all_devices(snapshot) == snapshot

\* A listing subcommand: the registry's answer is printed by
\* format_device_data, which returns nothing.
List(command, devices) ==
  /\ pc = "dispatch"
  /\ args.cmd = command
  /\ listed' = devices
  /\ stdout' = stdout \o format_device_data(devices, args.json)
  /\ func_ret' = "None"
  /\ pc' = "returned"
  /\ UNCHANGED << args, glib_default, agent_vars, loop_vars, manager_vars,
                  callback_vars, main_ret, exit_status >>

connected ==
  \E snapshot \in RegistrySnapshots :
    List("connected-devices", connected_devices(snapshot))

paired ==
  \E snapshot \in RegistrySnapshots :
    List("paired-devices", paired_devices(snapshot))

scan ==
  \E snapshot \in RegistrySnapshots : List("scan", all_devices(snapshot))

\* --------------------------------------------------------- main(), the end
\* cli.py main(), lines 198-202.
main_return ==
  /\ pc = "returned"
  /\ main_ret' = IF Truthy(func_ret) THEN func_ret ELSE 0
  /\ pc' = "main_done"
  /\ UNCHANGED << args, glib_default, agent_vars, loop_vars, manager_vars,
                  callback_vars, stdout, listed, func_ret, exit_status >>

\* cli.py, lines 205-206: main() is called as a statement, its value is
\* dropped and the interpreter ends with status 0.
process_exit ==
  /\ pc = "main_done"
  /\ exit_status' = 0
  /\ pc' = "exited"
  /\ UNCHANGED << args, glib_default, agent_vars, loop_vars, manager_vars,
                  callback_vars, stdout, listed, func_ret, main_ret >>

\* ------------------------------------------------------- the specification
Next ==
  \/ main_parse_args
  \/ pair
  \/ unpair
  \/ connect
  \/ disconnect
  \/ DeviceManager_register_agent
  \/ \E value \in BOOLEAN : set_exit_on_release(value)
  \/ DeviceManager_issue_request
  \/ Release
  \/ \E device \in Addresses, pincode \in PinCodes :
       DisplayPinCode(device, pincode)
  \/ \E device \in Addresses, passkey \in Passkeys :
       RequestConfirmation(device, passkey)
  \/ DeviceManager_terminal_response
  \/ DeviceManager_timeout
  \/ lifecycle_return
  \/ connected
  \/ paired
  \/ scan
  \/ main_return
  \/ process_exit

Spec == Init /\ [][Next]_vars

\* The steps of the process itself: straight-line Python, and the service's
\* terminal response or the operation's time bound, one of which the design
\* document guarantees.  The agent's callbacks are the service's choice.
Progress ==
  \/ main_parse_args
  \/ pair
  \/ unpair
  \/ connect
  \/ disconnect
  \/ DeviceManager_register_agent
  \/ DeviceManager_issue_request
  \/ DeviceManager_terminal_response
  \/ DeviceManager_timeout
  \/ lifecycle_return
  \/ connected
  \/ paired
  \/ scan
  \/ main_return
  \/ process_exit

FairSpec == Spec /\ WF_vars(Progress)

\* ============================================================== properties
IsLifecycle == args.cmd \in LifecycleCommands

IsListing == args.cmd \in ListingCommands

\* The subcommand function has returned.
FuncReturned == pc \in {"returned", "main_done", "exited"}

\* A PairingSession: a pair or connect request issued, its terminal response
\* not yet there.
SessionOpen == args.cmd \in {"pair", "connect"} /\ op = "pending"

\* This step is the delivery of `method` to the agent.
DeliveryOf(method) == delivered' = Append(delivered, method)

ReleaseReplies == { i \in 1..Len(replies) : replies[i].method = "Release" }

LastResult == results[Len(results)]

\* The printed lines that are an operation's result in the invocation's
\* output mode.
ResultLines ==
  { i \in 1..Len(stdout) :
      /\ stdout[i].kind = (IF args.json THEN "json" ELSE "text")
      /\ \E res \in OperationResults \cup {TimeoutResult} :
           stdout[i].value = format_results(res, args.json).value }

DeviceFields == {"address", "rssi", "icon", "paired", "connected", "alias"}

\* --- C1 -------------------------------------------------------------------
\* C1: whenever Release() is delivered to an agent whose exit_on_release is
\* true while the loop is running, the loop is stopped in the state after it.
C1_ReleaseStopsLoop ==
  [][ (DeliveryOf("Release") /\ exit_on_release /\ loop = "running")
        => loop' = "stopped" ]_vars

\* --- C2 -------------------------------------------------------------------
\* C2: Release() never raises: every Release() delivered, whatever
\* exit_on_release was, ended by returning normally.
C2_ReleaseNeverRaises ==
  /\ Len(replies) = Len(delivered)
  /\ \A i \in ReleaseReplies : replies[i].outcome = "return"

\* --- C3 -------------------------------------------------------------------
\* C3: while a PairingSession is open (a pair or connect request issued and
\* not yet resolved) the loop is running; a Release() delivered meanwhile
\* does not leave the session open with the loop stopped.
C3_LoopRunsDuringSession == SessionOpen => loop = "running"

\* A session is open and a Release() has been delivered to an agent whose
\* exit_on_release was true.
C3_Witness ==
  /\ SessionOpen
  /\ \E i \in ReleaseReplies : replies[i].flag

\* --- C4 -------------------------------------------------------------------
\* C4: in an invocation that issues a lifecycle operation the loop is
\* eventually stopped, it is stopped exactly once, the stop comes after the
\* operation has resolved or on a Release() received with exit_on_release
\* true, and the process then gets to exit.
C4_LoopStoppedExactlyOnce ==
  /\ [](stops <= 1)
  /\ [](loop = "stopped" =>
          \/ op = "resolved"
          \/ \E i \in ReleaseReplies : replies[i].flag)
  /\ []((pc = "exited" /\ requests > 0) => (stops = 1 /\ loop = "stopped"))
  /\ (requests > 0) ~> (loop = "stopped")
  /\ (loop = "stopped") ~> (pc = "exited")

\* The process has exited after one operation, during which a Release()
\* arrived at an agent told not to exit on release; the loop was stopped once.
C4_Witness ==
  /\ pc = "exited"
  /\ requests = 1
  /\ stops = 1
  /\ \E i \in ReleaseReplies : ~replies[i].flag

\* --- C5 -------------------------------------------------------------------
\* C5: for pair, unpair, connect and disconnect the exit status is the
\* operation's code: 0 on success, the nonzero code on failure.
C5_ExitStatusIsCode ==
  (pc = "exited" /\ IsLifecycle) => exit_status = LastResult.code

\* --- C6 -------------------------------------------------------------------
\* C6: exit_on_release is true while set_exit_on_release was never called,
\* afterwards it is the argument of the latest call; a Release() received
\* while it is false leaves the loop running.
C6_ExitOnReleaseFlag ==
  /\ [](exit_on_release =
          IF set_calls = << >> THEN TRUE ELSE set_calls[Len(set_calls)])
  /\ [][ (DeliveryOf("Release") /\ ~exit_on_release) => loop' = "running" ]_vars

\* The flag was set twice, to true and then to false, and a Release() has
\* been handled since with the loop still running.
C6_Witness ==
  /\ set_calls = << TRUE, FALSE >>
  /\ ~exit_on_release
  /\ \E i \in ReleaseReplies : ~replies[i].flag /\ replies[i].outcome = "return"
  /\ loop = "running"

\* --- C7 -------------------------------------------------------------------
\* C7: a lifecycle subcommand asks for its operation once, the operation is
\* issued once (no retry), and once the subcommand has returned exactly one
\* result has been printed, whatever the operation's outcome.
C7_OneOperationOneResult ==
  IsLifecycle =>
    /\ calls <= 1
    /\ requests <= 1
    /\ Cardinality(ResultLines) <= 1
    /\ FuncReturned =>
         /\ calls = 1
         /\ requests = 1
         /\ Len(results) = 1
         /\ Cardinality(ResultLines) = 1
         /\ stdout[Len(stdout)] = format_results(LastResult, args.json)

\* A failed operation's subcommand has returned, with agent callbacks printed
\* before its result.
C7_Witness ==
  /\ IsLifecycle
  /\ FuncReturned
  /\ LastResult.code # 0
  /\ Len(stdout) > 1

\* --- C8 -------------------------------------------------------------------
\* C8 as claimed: in machine-readable mode the object printed for a lifecycle
\* operation has exactly the fields message and code, holding the result's
\* message and code.
C8_ObjectHasMessageAndCode ==
  (IsLifecycle /\ args.json /\ FuncReturned) =>
    /\ stdout[Len(stdout)].kind = "json"
    /\ DOMAIN stdout[Len(stdout)].value = {"message", "code"}
    /\ stdout[Len(stdout)].value.message = LastResult.result
    /\ stdout[Len(stdout)].value.code = LastResult.code

\* C8 as amended: in machine-readable mode the object printed for a
\* lifecycle operation has exactly the fields result and code, holding the
\* result's message and code.
C8_ObjectHasResultAndCode ==
  (IsLifecycle /\ args.json /\ FuncReturned) =>
    /\ stdout[Len(stdout)].kind = "json"
    /\ DOMAIN stdout[Len(stdout)].value = {"result", "code"}
    /\ stdout[Len(stdout)].value.result = LastResult.result
    /\ stdout[Len(stdout)].value.code = LastResult.code

\* A failed operation's result has been printed in machine-readable mode.
C8_Witness ==
  /\ IsLifecycle
  /\ args.json
  /\ pc = "returned"
  /\ LastResult.code = 1

\* --- C9 -------------------------------------------------------------------
\* C9: in machine-readable mode the printed sequence has the length and the
\* order of the registry's answer, and its i-th record has exactly the six
\* fields address, rssi, icon, paired, connected, alias with the values of
\* the answer's i-th record.
C9_DeviceListingPreserved ==
  (IsListing /\ args.json /\ FuncReturned) =>
    /\ Len(stdout) = 1
    /\ stdout[1].kind = "json"
    /\ Len(stdout[1].value) = Len(listed)
    /\ \A i \in 1..Len(listed) :
         /\ DOMAIN stdout[1].value[i] = DeviceFields
         /\ \A f \in DeviceFields : stdout[1].value[i][f] = listed[i][f]

\* A listing of two different devices, one of them without an rssi, has been
\* printed in machine-readable mode.
C9_Witness ==
  /\ IsListing
  /\ args.json
  /\ FuncReturned
  /\ Len(listed) = 2
  /\ listed[1] # listed[2]
  /\ listed[1].rssi = << >>

\* --- C10 ------------------------------------------------------------------
\* C10: every DisplayPinCode and RequestConfirmation delivered, whatever was
\* delivered before it, is answered at its place in the delivery order by a
\* normal return, and handling it neither stops the loop nor changes
\* exit_on_release.
C10_CallbacksAccepted ==
  /\ [](\A i \in 1..Len(delivered) :
          delivered[i] \in {"DisplayPinCode", "RequestConfirmation"} =>
            /\ i <= Len(replies)
            /\ replies[i].method = delivered[i]
            /\ replies[i].outcome = "return")
  /\ [][ (DeliveryOf("DisplayPinCode") \/ DeliveryOf("RequestConfirmation"))
           => /\ loop' = loop
              /\ exit_on_release' = exit_on_release
              /\ Len(replies') = Len(delivered') ]_vars

\* A confirmation request and then a PIN display have been handled after a
\* Release() that failed.
C10_Witness ==
  /\ delivered = << "Release", "RequestConfirmation", "DisplayPinCode" >>
  /\ replies[1].outcome = "NameError"
  /\ loop = "running"

====
